---- MODULE Spec2Model ----
(***************************************************************************)
(* Parkinson's voice classifier API (app.py): the POST /predict handler,   *)
(* its temporary files, extract_features and the thresholded verdict.      *)
(*                                                                         *)
(* Probabilities are fixed-point numbers in units of 1/10000.              *)
(* Library calls (pydub, parselmouth, numpy, scikit-learn) either return   *)
(* or raise; which of them raise is part of the uploaded recording or of   *)
(* the loaded classifier artifact.                                         *)
(***************************************************************************)
EXTENDS Integers, Sequences, FiniteSets, TLC

\* ---------------------------------------------------------------- bounds
NumRequests == 2        \* concurrent requests of SpecConc
MaxFailures == 2        \* library calls of extract_features that raise on one recording

\* ---------------------------------------------------------------- config
Scale == 10000          \* fixed-point unit: 1.0
THRESHOLD == 6300       \* 0.63

FEATURE_COLS ==
    << "MDVP:Fo(Hz)", "MDVP:Fhi(Hz)", "MDVP:Flo(Hz)",
       "MDVP:Jitter(%)", "MDVP:Jitter(Abs)", "MDVP:RAP", "MDVP:PPQ",
       "Jitter:DDP", "MDVP:Shimmer", "MDVP:Shimmer(dB)", "Shimmer:APQ3",
       "Shimmer:APQ5", "MDVP:APQ", "Shimmer:DDA", "NHR", "HNR" >>

Range(s) == { s[i] : i \in DOMAIN s }

\* ------------------------------------------------------------ recordings
\* The library calls extract_features makes, in program order.
LoadCalls == << "Sound", "to_pitch", "nanmean", "nanmax", "nanmin", "to_point_process_cc" >>

\* The calls of the jitter/shimmer try block, in program order, each with the
\* key it is assigned to (to_shimmer_apq5 is called twice: APQ is a proxy).
JitterCalls ==
    << <<"MDVP:Jitter(%)",   "to_jitter_local">>,
       <<"MDVP:Jitter(Abs)", "to_jitter_local_absolute">>,
       <<"MDVP:RAP",         "to_jitter_rap">>,
       <<"MDVP:PPQ",         "to_jitter_ppq5">>,
       <<"Jitter:DDP",       "to_jitter_ddp">>,
       <<"MDVP:Shimmer",     "to_shimmer_local">>,
       <<"MDVP:Shimmer(dB)", "to_shimmer_local_dB">>,
       <<"Shimmer:APQ3",     "to_shimmer_apq3">>,
       <<"Shimmer:APQ5",     "to_shimmer_apq5">>,
       <<"MDVP:APQ",         "to_shimmer_apq5">>,
       <<"Shimmer:DDA",      "to_shimmer_dda">> >>

JitterKeys == { JitterCalls[i][1] : i \in DOMAIN JitterCalls }

NoiseCalls == << <<"NHR", "to_noise_harmonics_ratio">>,
                 <<"HNR", "to_harmonics_noise_ratio">> >>

PitchCalls == << <<"MDVP:Fo(Hz)",  "nanmean">>,
                 <<"MDVP:Fhi(Hz)", "nanmax">>,
                 <<"MDVP:Flo(Hz)", "nanmin">> >>

Calls == Range(LoadCalls)
           \cup { JitterCalls[i][2] : i \in DOMAIN JitterCalls }
           \cup { NoiseCalls[i][2] : i \in DOMAIN NoiseCalls }

\* The call that computes the value stored under key k.
CallOf(k) ==
    LET all == PitchCalls \o JitterCalls \o NoiseCalls
    IN  all[CHOOSE i \in DOMAIN all : all[i][1] = k][2]

Tones == {1, 2}         \* what the recording sounds like: decides every metric's value

\* Container, channel count and sample rate of an upload.
AudioFormats == { <<"webm", 1, 48000>>, <<"wav", 2, 44100>>, <<"wav", 1, 16000>> }

\* The content of a file: an audio recording. decodable: a decoder accepts it.
\* fails: the library calls of extract_features that raise on this audio.
Audio(fmt, dec, tone, fails) ==
    [ container |-> fmt[1], channels |-> fmt[2], rate |-> fmt[3],
      decodable |-> dec, tone |-> tone, fails |-> fails ]

FailSets == { F \in SUBSET Calls : Cardinality(F) <= MaxFailures }

Recordings ==
    { Audio(f, d, 1, {}) : f \in AudioFormats, d \in BOOLEAN }
      \cup { Audio(<<"webm", 1, 48000>>, TRUE, 1, F) : F \in FailSets }

\* Every combination of failing calls inside the try blocks, with at most one
\* failing call outside them.
ExtractFailSets ==
    { F \cup G : F \in SUBSET { JitterCalls[i][2] : i \in DOMAIN JitterCalls },
                 G \in { {}, {"to_noise_harmonics_ratio"}, {"to_harmonics_noise_ratio"},
                         {"to_noise_harmonics_ratio", "to_harmonics_noise_ratio"},
                         {"nanmax"}, {"to_point_process_cc"} } }

ConcRecordings ==
    { Audio(<<"webm", 1, 48000>>, TRUE, 1, {}),
      Audio(<<"wav", 2, 44100>>, TRUE, 2, {"to_pitch"}) }

UploadKinds == { "nofile", "emptyname", "named" }

\* request.files: no "file" field, a "file" field with an empty filename, or
\* a named file with its content.
Upload(kind, rec) == [ kind |-> kind, rec |-> rec ]

NoAudio == Audio(<<"none", 0, 0>>, FALSE, 1, {})

Uploads ==
    { Upload("nofile", NoAudio), Upload("emptyname", NoAudio) }
      \cup { Upload("named", a) : a \in Recordings }

ConcUploads == { Upload("named", a) : a \in ConcRecordings }

\* ------------------------------------------------------------ file system
NoPath == <<"none", 0>>
EmptyFS == [ p \in {} |-> NoAudio ]

Exists(fs, p) == p \in DOMAIN fs
WriteFile(fs, p, c) == [ q \in (DOMAIN fs) \cup {p} |-> IF q = p THEN c ELSE fs[q] ]
DeleteFile(fs, p) == [ q \in (DOMAIN fs) \ {p} |-> fs[q] ]

\* tempfile.NamedTemporaryFile(delete=False).name and uuid.uuid4(): the n-th
\* name handed out in the process; no name is handed out twice.
NamedTemporaryFile(n) == <<"/tmp/tmp", n>>

uuid4_fixed(n) == <<"/tmp/out.wav", 0>>
uuid4(n) == <<"/tmp/uuid.wav", n>>

\* ------------------------------------------------------------------ pydub
\* AudioSegment.from_file(path): decodes the file, keeping its channel count
\* and frame rate; raises when the file is missing or cannot be decoded.
from_file(fs, path) ==
    IF Exists(fs, path) /\ fs[path].decodable
    THEN [ raised |-> FALSE, seg |-> fs[path] ]
    ELSE [ raised |-> TRUE,  seg |-> NoAudio ]

\* What export(format="wav") writes for a segment.
WavOf_mono(seg) ==
    [ seg EXCEPT !.container = "wav", !.channels = 1, !.rate = 16000 ]
WavOf(seg) ==
    [ seg EXCEPT !.container = "wav" ]

\* seg.export(path, format="wav"): opens path for writing, then writes the
\* segment; when the write fails (io_ok = FALSE) the file is left truncated.
export(fs, seg, path, io_ok) ==
    IF io_ok
    THEN [ raised |-> FALSE, fs |-> WriteFile(fs, path, WavOf(seg)) ]
    ELSE [ raised |-> TRUE,
           fs |-> WriteFile(fs, path, [ WavOf(seg) EXCEPT !.decodable = FALSE ]) ]

\* ----------------------------------------------------- feature extraction
NaN == <<"nan", 0, 0>>
\* The number a library call returns on audio of a given tone.
Value(call, tone) == <<call, tone, 1>>
Times100(v) == <<v[1], v[2], v[3] * 100>>

IsNaN(v) == v = NaN

\* feats[key] = v on a dict.
Assign(feats, key, v) ==
    [ q \in (DOMAIN feats) \cup {key} |-> IF q = key THEN v ELSE feats[q] ]

EmptyDict == [ q \in {} |-> NaN ]

\* Lines 40-43: to_pitch and the three pitch statistics, outside any try.
PitchMetrics(feats, a) ==
    IF \E c \in {"to_pitch", "nanmean", "nanmax", "nanmin"} : c \in a.fails
    THEN [ raised |-> TRUE, feats |-> feats ]
    ELSE [ raised |-> FALSE,
           feats |-> Assign(Assign(Assign(feats,
                        "MDVP:Fo(Hz)",  Value("nanmean", a.tone)),
                        "MDVP:Fhi(Hz)", Value("nanmax", a.tone)),
                        "MDVP:Flo(Hz)", Value("nanmin", a.tone)) ]

\* Lines 48-58: the body of the jitter/shimmer try, statement i onwards.
RECURSIVE TryJitter(_, _, _)
TryJitter(feats, i, a) ==
    IF i > Len(JitterCalls) THEN [ raised |-> FALSE, feats |-> feats ]
    ELSE IF JitterCalls[i][2] \in a.fails THEN [ raised |-> TRUE, feats |-> feats ]
    ELSE LET v == Value(JitterCalls[i][2], a.tone)
         IN  TryJitter(Assign(feats, JitterCalls[i][1], IF i = 1 THEN Times100(v) ELSE v),
                       i + 1, a)

\* Lines 61-65: the except branch sets all eleven keys to NaN.
RECURSIVE FillNaN(_, _)
FillNaN(feats, i) ==
    IF i > Len(JitterCalls) THEN feats
    ELSE FillNaN(Assign(feats, JitterCalls[i][1], NaN), i + 1)

JitterShimmer_PerMetric(feats, a) ==
    [ q \in (DOMAIN feats) \cup JitterKeys |->
        IF q \in JitterKeys
        THEN IF CallOf(q) \in a.fails THEN NaN
             ELSE LET v == Value(CallOf(q), a.tone)
                  IN  IF q = "MDVP:Jitter(%)" THEN Times100(v) ELSE v
        ELSE feats[q] ]
\* Lines 47-65.
JitterShimmer(feats, a) ==
    LET t == TryJitter(feats, 1, a)
    IN  IF t.raised THEN FillNaN(t.feats, 1) ELSE t.feats

\* Lines 68-71: each noise ratio in a try of its own.
NoiseRatio(feats, i, a) ==
    IF NoiseCalls[i][2] \in a.fails
    THEN Assign(feats, NoiseCalls[i][1], NaN)
    ELSE Assign(feats, NoiseCalls[i][1], Value(NoiseCalls[i][2], a.tone))

\* Lines 74-75: feats.setdefault(col, nan) for every column.
SetDefaults(feats) ==
    [ q \in (DOMAIN feats) \cup Range(FEATURE_COLS) |->
        IF q \in DOMAIN feats THEN feats[q] ELSE NaN ]

\* Line 77: pd.DataFrame([feats])[cols], a one-row frame as the sequence of
\* its (column, value) cells; a column that is no key raises KeyError.
SelectColumns_DropNaN(feats, cols) ==
    LET keep == SelectSeq(cols, LAMBDA c : c \in DOMAIN feats /\ ~IsNaN(feats[c]))
    IN  [ raised |-> FALSE,
          frame |-> [ i \in 1..Len(keep) |-> [ col |-> keep[i], val |-> feats[keep[i]] ] ] ]
SelectColumns(feats, cols) ==
    IF \E i \in DOMAIN cols : cols[i] \notin DOMAIN feats
    THEN [ raised |-> TRUE, frame |-> << >> ]
    ELSE [ raised |-> FALSE,
           frame |-> [ i \in 1..Len(cols) |-> [ col |-> cols[i], val |-> feats[cols[i]] ] ] ]

\* extract_features(path_wav), lines 35-77.
extract_features(fs, path_wav) ==
    IF ~Exists(fs, path_wav) \/ ~fs[path_wav].decodable \/ "Sound" \in fs[path_wav].fails
    THEN [ raised |-> TRUE, frame |-> << >> ]
    ELSE LET snd == fs[path_wav]
             p   == PitchMetrics(EmptyDict, snd)
         IN  IF p.raised \/ "to_point_process_cc" \in snd.fails
             THEN [ raised |-> TRUE, frame |-> << >> ]
             ELSE SelectColumns(
                    SetDefaults(NoiseRatio(NoiseRatio(JitterShimmer(p.feats, snd), 1, snd), 2, snd)),
                    FEATURE_COLS)

\* ------------------------------------------------------------- classifier
\* Probabilities the classifier can return for a recording.
ProbGrid == { 0, 5, 5500, 6295, 6300, 6304, 6305, Scale }

\* A loaded artifact: the positive-class probability it gives to a feature
\* row (decided by what the recording sounds like), and whether its
\* estimator accepts missing values.
Artifact(p, nan_ok) ==
    [ proba |-> [ t \in Tones |-> IF t = 1 THEN p ELSE Scale - p ], nan_ok |-> nan_ok ]

Artifacts == { Artifact(p, b) : p \in ProbGrid, b \in BOOLEAN }

\* rf_model.predict_proba(feats)[0, 1], line 109.
predict_proba(model, frame) ==
    IF (\E i \in DOMAIN frame : IsNaN(frame[i].val)) /\ ~model.nan_ok
    THEN [ raised |-> TRUE, prob |-> 0 ]
    ELSE [ raised |-> FALSE, prob |-> model.proba[frame[1].val[2]] ]

\* int(prob > THRESHOLD), line 110.
Verdict_Half(prob) == IF 2 * prob > Scale THEN 1 ELSE 0
Verdict_AtLeast(prob) == IF prob >= THRESHOLD THEN 1 ELSE 0
Verdict(prob) == IF prob > THRESHOLD THEN 1 ELSE 0

\* Line 111.
Label(pred) == IF pred = 1 THEN "Likely Parkinson's Disease" ELSE "Likely Healthy"

\* The ties of ProbGrid (x.xxx5) that float round() takes upwards: 0.0005 is
\* stored just above the tie, 0.6295 and 0.6305 just below.
TiesUp == { 5 }

\* round(prob, 3), line 117, in units of 1/1000.
Round3(prob) ==
    IF prob % 10 = 5
    THEN IF prob \in TiesUp THEN prob \div 10 + 1 ELSE prob \div 10
    ELSE (prob + 5) \div 10

\* -------------------------------------------------------------- responses
\* What the client receives: a status and a body. kind is "error" for
\* jsonify(error=...), "result" for jsonify(result=..., probability=...,
\* threshold=...), "html" for the framework's page after an exception left
\* the handler; probability is in units of 1/1000, threshold in 1/10000.
Resp(status, kind, error, result, probability, threshold) ==
    [ status |-> status, kind |-> kind, error |-> error, result |-> result,
      probability |-> probability, threshold |-> threshold ]

NoResponse == Resp(0, "none", "", "", 0, 0)
\* An exception in flight while a finally block runs.
Raising == Resp(0, "raise", "", "", 0, 0)
jsonify_error(msg, status) == Resp(status, "error", msg, "", 0, 0)
jsonify_result(result, probability, threshold) ==
    Resp(200, "result", "", result, probability, threshold)
\* Flask's answer when the view function raises.
Unhandled == Resp(500, "html", "Internal Server Error", "", 0, 0)

\* ------------------------------------------------------------ the handler
Req == 1..NumRequests

\* The locals of one call of predict(), with two history fields: the paths
\* it created and the os.remove calls it made.
InitLoc ==
    [ pc |-> "idle", upload |-> Upload("nofile", NoAudio), io_ok |-> TRUE,
      orig_path |-> NoPath, wav_path |-> NoPath, pending |-> NoResponse,
      exc |-> "none", frame |-> << >>, prob |-> 0, pred |-> 0, result |-> "",
      response |-> NoResponse, created |-> {}, removes |-> << >> ]

\* os.remove(path) by a request: deletes the file, or raises
\* FileNotFoundError; either way the call is logged.
os_remove(l, fs, path) ==
    [ raised |-> ~Exists(fs, path),
      fs     |-> DeleteFile(fs, path),
      loc    |-> [ l EXCEPT !.removes = Append(@, [ path |-> path, ok |-> Exists(fs, path) ]) ] ]

\* Lines 87-89: validate the upload.
DoValidate_NoNameCheck(l, u) ==
    IF u.kind = "nofile"
    THEN [ l EXCEPT !.upload = u, !.pc = "done",
                    !.response = jsonify_error("No file uploaded", 400) ]
    ELSE [ l EXCEPT !.upload = u, !.pc = "save" ]
DoValidate(l, u) ==
    IF u.kind = "nofile" \/ u.kind = "emptyname"
    THEN [ l EXCEPT !.upload = u, !.pc = "done",
                    !.response = jsonify_error("No file uploaded", 400) ]
    ELSE [ l EXCEPT !.upload = u, !.pc = "save" ]

\* Lines 92-94: save the upload under a new temporary name.
DoSave(l, fs, name) ==
    [ loc |-> [ l EXCEPT !.orig_path = name, !.created = @ \cup {name}, !.pc = "convert" ],
      fs  |-> WriteFile(fs, name, l.upload.rec) ]

\* Lines 97-99: the try body. The name AudioSegment is looked up in the
\* module's globals first (bound = FALSE: NameError).
DoConvertCall(l, fs, bound, wav, io_ok) ==
    LET l1 == [ l EXCEPT !.wav_path = wav ]
        d  == from_file(fs, l.orig_path)
        e  == export(fs, d.seg, wav, io_ok)
    IN  IF ~bound \/ d.raised
        THEN [ loc |-> [ l1 EXCEPT !.exc = "conversion", !.pc = "conv_except" ], fs |-> fs ]
        ELSE IF e.raised
        THEN [ loc |-> [ l1 EXCEPT !.exc = "conversion", !.pc = "conv_except",
                                   !.io_ok = io_ok, !.created = @ \cup {wav} ],
               fs  |-> e.fs ]
        ELSE [ loc |-> [ l1 EXCEPT !.pc = "conv_finally", !.io_ok = io_ok,
                                   !.created = @ \cup {wav} ],
               fs  |-> e.fs ]

\* Lines 100-102: the except branch; its return waits for the finally block.
DoConvertExcept(l, fs) ==
    LET r == os_remove(l, fs, l.orig_path)
    IN  [ loc |-> [ r.loc EXCEPT !.pc = "conv_finally",
                                 !.pending = IF r.raised THEN Raising
                                             ELSE jsonify_error("Audio conversion failed", 400) ],
          fs  |-> r.fs ]

\* Lines 103-104: the finally block, then what was pending: an exception
\* raised in it replaces a pending return.
DoConvertFinally(l, fs) ==
    LET r == os_remove(l, fs, l.orig_path)
    IN  [ loc |-> IF r.raised \/ l.pending.kind = "raise"
                  THEN [ r.loc EXCEPT !.pc = "done", !.response = Unhandled ]
                  ELSE IF l.pending.kind = "none"
                  THEN [ r.loc EXCEPT !.pc = "classify" ]
                  ELSE [ r.loc EXCEPT !.pc = "done", !.response = l.pending ],
          fs  |-> r.fs ]

\* Lines 107-111: the try body of feature extraction and classification.
DoClassify(l, fs, model) ==
    LET x == extract_features(fs, l.wav_path)
        c == predict_proba(model, x.frame)
    IN  IF x.raised
        THEN [ l EXCEPT !.exc = "extract_features", !.pc = "classify_except" ]
        ELSE IF c.raised
        THEN [ l EXCEPT !.frame = x.frame, !.exc = "predict_proba", !.pc = "classify_except" ]
        ELSE [ l EXCEPT !.frame = x.frame, !.prob = c.prob, !.pred = Verdict(c.prob),
                        !.result = Label(Verdict(c.prob)), !.pc = "respond" ]

\* Lines 112-114: the except branch.
DoClassifyExcept_NoRemove(l, fs) ==
    [ loc |-> [ l EXCEPT !.pc = "done",
                         !.response = jsonify_error("Feature extraction failed", 500) ],
      fs  |-> fs ]
DoClassifyExcept(l, fs) ==
    LET r == os_remove(l, fs, l.wav_path)
    IN  [ loc |-> [ r.loc EXCEPT !.pc = "done",
                                 !.response = IF r.raised THEN Unhandled
                                              ELSE jsonify_error("Feature extraction failed", 500) ],
          fs  |-> r.fs ]

\* Lines 116-117: remove the waveform and answer.
DoRespond(l, fs) ==
    LET r == os_remove(l, fs, l.wav_path)
    IN  [ loc |-> [ r.loc EXCEPT !.pc = "done",
                                 !.response = IF r.raised THEN Unhandled
                                              ELSE jsonify_result(l.result, Round3(l.prob),
                                                                  THRESHOLD) ],
          fs  |-> r.fs ]

\* ------------------------------------------------------------------ state
VARIABLES
    loc,            \* loc[r]: the locals of request r's call of predict()
    files,          \* the files under the temporary directory
    rf_model,       \* the module global rf_model
    AudioSegment,   \* whether the module global AudioSegment is bound
    names           \* how many temporary names the process has handed out

vars == << loc, files, rf_model, AudioSegment, names >>

\* Module import, lines 19-32: joblib.load gives some artifact; app.py itself
\* never binds AudioSegment, a deployment that patches the import does.
Init ==
    /\ loc = [ r \in Req |-> InitLoc ]
    /\ files = EmptyFS
    /\ rf_model \in Artifacts
    /\ AudioSegment \in BOOLEAN
    /\ names = 0

Validate(r, u) ==
    /\ loc[r].pc = "idle"
    /\ loc' = [ loc EXCEPT ![r] = DoValidate(loc[r], u) ]
    /\ UNCHANGED << files, rf_model, AudioSegment, names >>

SaveUpload(r) ==
    /\ loc[r].pc = "save"
    /\ LET s == DoSave(loc[r], files, NamedTemporaryFile(names))
       IN  /\ loc' = [ loc EXCEPT ![r] = s.loc ]
           /\ files' = s.fs
    /\ names' = names + 1
    /\ UNCHANGED << rf_model, AudioSegment >>

ConvertCall(r, io_ok) ==
    /\ loc[r].pc = "convert"
    /\ LET s == DoConvertCall(loc[r], files, AudioSegment, uuid4(names), io_ok)
       IN  /\ loc' = [ loc EXCEPT ![r] = s.loc ]
           /\ files' = s.fs
    /\ names' = names + 1
    /\ UNCHANGED << rf_model, AudioSegment >>

ConvertExcept(r) ==
    /\ loc[r].pc = "conv_except"
    /\ LET s == DoConvertExcept(loc[r], files)
       IN  /\ loc' = [ loc EXCEPT ![r] = s.loc ]
           /\ files' = s.fs
    /\ UNCHANGED << rf_model, AudioSegment, names >>

ConvertFinally(r) ==
    /\ loc[r].pc = "conv_finally"
    /\ LET s == DoConvertFinally(loc[r], files)
       IN  /\ loc' = [ loc EXCEPT ![r] = s.loc ]
           /\ files' = s.fs
    /\ UNCHANGED << rf_model, AudioSegment, names >>

Classify(r) ==
    /\ loc[r].pc = "classify"
    /\ loc' = [ loc EXCEPT ![r] = DoClassify(loc[r], files, rf_model) ]
    /\ UNCHANGED << files, rf_model, AudioSegment, names >>

ClassifyExcept(r) ==
    /\ loc[r].pc = "classify_except"
    /\ LET s == DoClassifyExcept(loc[r], files)
       IN  /\ loc' = [ loc EXCEPT ![r] = s.loc ]
           /\ files' = s.fs
    /\ UNCHANGED << rf_model, AudioSegment, names >>

Respond(r) ==
    /\ loc[r].pc = "respond"
    /\ LET s == DoRespond(loc[r], files)
       IN  /\ loc' = [ loc EXCEPT ![r] = s.loc ]
           /\ files' = s.fs
    /\ UNCHANGED << rf_model, AudioSegment, names >>

Step(r) ==
    \/ SaveUpload(r)
    \/ \E io_ok \in BOOLEAN : ConvertCall(r, io_ok)
    \/ ConvertExcept(r)
    \/ ConvertFinally(r)
    \/ Classify(r)
    \/ ClassifyExcept(r)
    \/ Respond(r)

\* One request, over every upload and every artifact.
Next ==
    \/ \E u \in Uploads : Validate(1, u)
    \/ Step(1)

Spec == Init /\ [][Next]_vars

\* Concurrent requests (one worker thread each) over two recordings.
ConcModel == Artifact(6400, TRUE)

InitConc ==
    /\ loc = [ r \in Req |-> InitLoc ]
    /\ files = EmptyFS
    /\ rf_model = ConcModel
    /\ AudioSegment \in BOOLEAN
    /\ names = 0

NextConc ==
    \E r \in Req :
        \/ \E u \in ConcUploads : Validate(r, u)
        \/ Step(r)

SpecConc == InitConc /\ [][NextConc]_vars

\* extract_features and the classifier alone: the request is about to run
\* line 108 on a waveform with any combination of failing metric calls.
InitExtract ==
    /\ \E F \in ExtractFailSets :
        LET a == Audio(<<"wav", 1, 16000>>, TRUE, 1, F)
        IN  /\ loc = [ r \in Req |->
                        IF r = 1
                        THEN [ InitLoc EXCEPT !.pc = "classify", !.upload = Upload("named", a),
                                              !.orig_path = NamedTemporaryFile(0),
                                              !.wav_path = uuid4(1),
                                              !.created = { NamedTemporaryFile(0), uuid4(1) },
                                              !.removes = << [ path |-> NamedTemporaryFile(0),
                                                               ok |-> TRUE ] >> ]
                        ELSE InitLoc ]
            /\ files = WriteFile(EmptyFS, uuid4(1), WavOf(a))
    /\ rf_model \in { Artifact(6304, b) : b \in BOOLEAN }
    /\ AudioSegment = TRUE
    /\ names = 2

NextExtract ==
    \/ Classify(1)
    \/ ClassifyExcept(1)
    \/ Respond(1)

SpecExtract == InitExtract /\ [][NextExtract]_vars

\* ------------------------------------------------------- a request alone
\* One step of predict() for locals l over a file system of its own.
StepAlone(st, bound, model) ==
    LET l == st.loc
    IN  CASE l.pc = "save" ->
               LET s == DoSave(l, st.fs, NamedTemporaryFile(st.names))
               IN  [ loc |-> s.loc, fs |-> s.fs, names |-> st.names + 1 ]
          [] l.pc = "convert" ->
               LET s == DoConvertCall(l, st.fs, bound, uuid4(st.names), l.io_ok)
               IN  [ loc |-> s.loc, fs |-> s.fs, names |-> st.names + 1 ]
          [] l.pc = "conv_except" ->
               LET s == DoConvertExcept(l, st.fs)
               IN  [ loc |-> s.loc, fs |-> s.fs, names |-> st.names ]
          [] l.pc = "conv_finally" ->
               LET s == DoConvertFinally(l, st.fs)
               IN  [ loc |-> s.loc, fs |-> s.fs, names |-> st.names ]
          [] l.pc = "classify" ->
               [ loc |-> DoClassify(l, st.fs, model), fs |-> st.fs, names |-> st.names ]
          [] l.pc = "classify_except" ->
               LET s == DoClassifyExcept(l, st.fs)
               IN  [ loc |-> s.loc, fs |-> s.fs, names |-> st.names ]
          [] l.pc = "respond" ->
               LET s == DoRespond(l, st.fs)
               IN  [ loc |-> s.loc, fs |-> s.fs, names |-> st.names ]

RECURSIVE RunAlone(_, _, _)
RunAlone(st, bound, model) ==
    IF st.loc.pc = "done" THEN st.loc.response
    ELSE RunAlone(StepAlone(st, bound, model), bound, model)

\* The response to upload u when no other request is in flight, the export
\* succeeding or not as io_ok says.
AloneResponse(u, io_ok, bound, model) ==
    RunAlone([ loc |-> [ DoValidate(InitLoc, u) EXCEPT !.io_ok = io_ok ],
               fs |-> EmptyFS, names |-> 0 ], bound, model)

\* ----------------------------------------------------------------- claims
Done(r) == loc[r].pc = "done"
PD == "Likely Parkinson's Disease"
Healthy == "Likely Healthy"

\* The os.remove calls of request r on path p that deleted / found no file.
Removed(r, p) ==
    { i \in DOMAIN loc[r].removes : loc[r].removes[i].path = p /\ loc[r].removes[i].ok }
RemoveFailed(r, p) ==
    { i \in DOMAIN loc[r].removes : loc[r].removes[i].path = p /\ ~loc[r].removes[i].ok }

\* The request ran lines 107-111 to their end.
Classified(r) == loc[r].pc \in {"respond", "done"} /\ loc[r].result # ""
\* The request ran extract_features (it returned or raised).
Extracted(r) ==
    \/ loc[r].pc \in {"classify_except", "respond"}
    \/ Done(r) /\ (Classified(r) \/ loc[r].exc \in {"extract_features", "predict_proba"})

C2_ConversionFailureIs400 ==
    \A r \in Req :
        Done(r) /\ loc[r].exc = "conversion"
            => /\ loc[r].response = jsonify_error("Audio conversion failed", 400)
               /\ ~Exists(files, loc[r].orig_path)

\* C3: a request with no "file" field or with an empty filename gets 400 and
\* a JSON error, before any temporary file is created and before any
\* conversion, extraction or classification step runs.
C3_MissingUploadIs400 ==
    \A r \in Req :
        loc[r].pc # "idle" /\ loc[r].upload.kind \in {"nofile", "emptyname"}
            => /\ Done(r)
               /\ loc[r].response = jsonify_error("No file uploaded", 400)
               /\ loc[r].created = {} /\ loc[r].removes = << >>
               /\ loc[r].orig_path = NoPath /\ loc[r].wav_path = NoPath
               /\ loc[r].exc = "none" /\ loc[r].frame = << >> /\ loc[r].result = ""

C3_Witness ==
    \E r \in Req : Done(r) /\ loc[r].upload.kind = "emptyname" /\ loc[r].response.status = 400

\* C4: when the conversion succeeded and extract_features or predict_proba
\* raises, predict() returns 500 with a JSON error body, the waveform file is
\* deleted exactly once, and no success body is returned.
C4_ClassifyFailureIs500 ==
    \A r \in Req :
        Done(r) /\ loc[r].exc \in {"extract_features", "predict_proba"}
            => /\ loc[r].response = jsonify_error("Feature extraction failed", 500)
               /\ loc[r].response.kind # "result"
               /\ ~Exists(files, loc[r].wav_path)
               /\ Cardinality(Removed(r, loc[r].wav_path)) = 1
               /\ RemoveFailed(r, loc[r].wav_path) = {}

C4_Witness ==
    \E r \in Req : Done(r) /\ loc[r].exc = "predict_proba" /\ loc[r].response.status = 500

\* C5: when conversion, extraction and classification all succeed, the
\* response is JSON {result, probability, threshold} with threshold 0.63,
\* probability in [0,1], and result "Likely Parkinson's Disease" exactly when
\* the classifier's probability is strictly above 0.63 (0.63 itself: healthy).
C5_VerdictByThreshold ==
    \A r \in Req :
        Done(r) /\ Classified(r)
            => /\ loc[r].response.kind = "result" /\ loc[r].response.status = 200
               /\ loc[r].response.threshold = 6300
               /\ loc[r].response.probability \in 0..1000
               /\ loc[r].prob = rf_model.proba[loc[r].upload.rec.tone]
               /\ loc[r].response.result = IF loc[r].prob > 6300 THEN PD ELSE Healthy

C5_Witness ==
    \E r \in Req : Done(r) /\ loc[r].prob = 6300 /\ loc[r].response.result = Healthy

\* C6: whenever extract_features returns, the feature row has exactly the 16
\* columns of FEATURE_COLS, in that order, whichever metric calls raised.
C6_SixteenColumnsInOrder ==
    \A r \in Req :
        loc[r].frame # << >>
            => /\ Len(loc[r].frame) = 16
               /\ [ i \in DOMAIN loc[r].frame |-> loc[r].frame[i].col ] = FEATURE_COLS

C6_Witness ==
    \E r \in Req :
        /\ loc[r].frame # << >>
        /\ Cardinality(loc[r].upload.rec.fails) >= 3
        /\ \E i \in DOMAIN loc[r].frame : ~IsNaN(loc[r].frame[i].val)

\* What the metric under key k is on audio a when its call returns.
Computed(k, a) ==
    IF k = "MDVP:Jitter(%)" THEN Times100(Value(CallOf(k), a.tone))
    ELSE Value(CallOf(k), a.tone)

\* The waveform request r analyses.
Wave(r) == WavOf(loc[r].upload.rec)

\* C7 as stated: for each of the 16 metrics, if computing it fails it is NaN,
\* the extraction still returns a full row, and the metrics that computed
\* keep their values (the sound, its pitch object and its point process
\* having loaded).
C7_PerMetricIsolation ==
    \A r \in Req :
        /\ Extracted(r)
        /\ Wave(r).fails \cap {"Sound", "to_pitch", "to_point_process_cc"} = {}
        => /\ Len(loc[r].frame) = 16
           /\ \A i \in DOMAIN loc[r].frame :
                loc[r].frame[i].val =
                    IF CallOf(loc[r].frame[i].col) \in Wave(r).fails THEN NaN
                    ELSE Computed(loc[r].frame[i].col, Wave(r))

\* C7 amended: NHR and HNR are NaN exactly when their own call fails; the
\* eleven jitter/shimmer metrics are all NaN as soon as one of their calls
\* fails and all computed otherwise; the pitch metrics are never NaN: a
\* failure outside the try blocks makes extract_features raise.
C7_GroupedIsolation ==
    \A r \in Req :
        Extracted(r) =>
            LET a == Wave(r)
                f == loc[r].frame
                outside == { "Sound", "to_pitch", "nanmean", "nanmax", "nanmin",
                             "to_point_process_cc" }
                group == { JitterCalls[i][2] : i \in DOMAIN JitterCalls }
            IN  IF a.fails \cap outside # {}
                THEN f = << >> /\ loc[r].exc = "extract_features"
                ELSE /\ Len(f) = 16
                     /\ \A i \in DOMAIN f :
                          f[i].val =
                            IF f[i].col \in JitterKeys
                            THEN IF a.fails \cap group # {} THEN NaN ELSE Computed(f[i].col, a)
                            ELSE IF CallOf(f[i].col) \in a.fails THEN NaN
                            ELSE Computed(f[i].col, a)

C7_Witness ==
    \E r \in Req :
        /\ Extracted(r) /\ Len(loc[r].frame) = 16
        /\ Wave(r).fails = {"to_shimmer_dda", "to_noise_harmonics_ratio"}
        /\ IsNaN(loc[r].frame[4].val) /\ IsNaN(loc[r].frame[15].val)
        /\ ~IsNaN(loc[r].frame[16].val)

C9_RequestsDoNotInterfere ==
    /\ rf_model = ConcModel
    /\ \A r \in Req :
        /\ \A i \in DOMAIN loc[r].removes : loc[r].removes[i].path \in loc[r].created
        /\ \A q \in Req \ {r} : loc[r].created \cap loc[q].created = {}
        /\ loc[r].pc \in {"conv_finally", "classify", "classify_except", "respond"}
             /\ loc[r].exc # "conversion"
             => Exists(files, loc[r].wav_path) /\ files[loc[r].wav_path] = Wave(r)
        /\ Done(r) => loc[r].response =
                        AloneResponse(loc[r].upload, loc[r].io_ok, AudioSegment, rf_model)
    /\ \A p \in DOMAIN files : \E r \in Req : p \in loc[r].created

C9_Witness ==
    \E r \in Req, q \in Req :
        /\ Done(r) /\ loc[r].response.kind = "result" /\ loc[r].response.result = PD
        /\ loc[q].pc = "classify" /\ loc[q].upload.rec.tone = 2
        /\ Cardinality(Removed(q, loc[q].orig_path)) = 1

====
